---- MODULE Spec2Model ----
(***************************************************************************)
(* RSC Sales Performance Dashboard (src/app.py).                           *)
(*                                                                         *)
(* One run of the Streamlit script is a linear pipeline: upload check,     *)
(* load, column-name strip, date-column lookup, date normalisation,        *)
(* sidebar multiselects, filtering, KPI cards and six grouped views.  A    *)
(* widget interaction or a new upload reruns the script from the top.      *)
(*                                                                         *)
(* Column names are sequences of one-character strings so that str.strip   *)
(* is computed character by character.  Data cells are tagged records.     *)
(***************************************************************************)
EXTENDS Integers, Sequences, FiniteSets, TLC

----------------------------------------------------------------------------
(* Bounds of the input space. *)

\* Rows of an uploaded sheet under the standard header layout.
MaxRows == 3
\* Rows of an uploaded sheet under a non-standard header layout.
MaxHdrRows == 1
\* Largest proper sub-selection a user makes in one multiselect
\* (the full default selection is always offered as well).
MaxPick == 1

----------------------------------------------------------------------------
(* Cells *)

Num(n) == [t |-> "num", n |-> n, s |-> ""]
Str(s) == [t |-> "str", n |-> 0, s |-> s]
\* A timestamp, held as its day number counted from 1899-12-30.
Ts(d)  == [t |-> "ts", n |-> d, s |-> ""]
\* NaN / NaT / None: a missing value.
NaN    == [t |-> "nan", n |-> 0, s |-> ""]

IsNa(c) == c.t = "nan"

Range(f) == {f[i] : i \in DOMAIN f}

----------------------------------------------------------------------------
(* Column names *)

cStatus   == <<"S","t","a","t","u","s">>
cCity     == <<"C","i","t","y">>
cStore    == <<"S","t","o","r","e","n","a","m","e">>
cName     == <<"N","a","m","e">>
cCategory == <<"P","r","o","d","u","c","t"," ","C","a","t","e","g","o","r","y">>
cModel    == <<"M","o","d","e","l"," ","N","a","m","e">>
cLead     == <<"S","o","u","r","c","e"," ","O","f"," ","L","e","a","d">>
cQty      == <<"S","a","l","e","s"," ","Q","u","a","n","t","i","t","y">>
cValue    == <<"S","a","l","e","s"," ","V","a","l","u","e">>
cYear     == <<"Y","e","a","r">>
cMonthNo  == <<"M","o","n","t","h","_","N","o">>
cMonthName == <<"M","o","n","t","h","_","N","a","m","e">>

cReferDate     == <<"R","e","f","e","r"," ","D","a","t","e">>
cReferDate2    == <<"R","e","f","e","r","D","a","t","e">>
cReferenceDate == <<"R","e","f","e","r","e","n","c","e"," ","D","a","t","e">>
cRefDate       == <<"R","e","f"," ","D","a","t","e">>
cInvoiceDate   == <<"I","n","v","o","i","c","e"," ","D","a","t","e">>
cDate          == <<"D","a","t","e">>

possible_date_cols ==
    <<cReferDate, cReferDate2, cReferenceDate, cRefDate, cInvoiceDate, cDate>>

\* Python's str.strip(): leading and trailing whitespace removed.
RECURSIVE LStrip(_)
LStrip(s) == IF s # <<>> /\ Head(s) = " " THEN LStrip(Tail(s)) ELSE s

RECURSIVE RStrip(_)
RStrip(s) ==
    IF s # <<>> /\ s[Len(s)] = " " THEN RStrip(SubSeq(s, 1, Len(s) - 1)) ELSE s

Strip(s) == RStrip(LStrip(s))

----------------------------------------------------------------------------
(* Program constants *)

\* df["Year"].between(2024, 2025)
YearLo == 2024
YearHi == 2025
\* .head(5) of the four top-5 views, .head(10) of the leaderboard
TopN == 5
LeaderboardN == 10
\* origin="1899-12-30" counted in days from the civil epoch 0000-03-01
OriginShift == 693899

----------------------------------------------------------------------------
(* Uploaded sheets: the input space *)

\* One sheet row by logical field; date2 fills a second date column when
\* the layout has one.
MkRow(st, d, d2, ci, sto, na, ca, mo, le, q, v) ==
    [status |-> st, date |-> d, date2 |-> d2, city |-> ci, store |-> sto,
     name |-> na, category |-> ca, model |-> mo, lead |-> le,
     qty |-> q, value |-> v]

RowPool ==
    << MkRow(Str("Passed"), Num(45292), Num(45658), Str("North"), Str("S1"),
             Str("Asha"), Str("Camera"), Str("M1"), Str("Walk-in"),
             Num(10), Num(100)),
       MkRow(Str("Failed"), Num(45351), Num(45658), Str("North"), Str("S1"),
             Str("Asha"), Str("Camera"), Str("M1"), Str("Walk-in"),
             Num(99), Num(990)),
       MkRow(Str("Passed"), Num(45658), Num(45292), Str("South"), Str("S2"),
             Str("Ravi"), Str("Printer"), Str("M2"), Str("Online"),
             Num(5), Num(50)),
       MkRow(Str("Passed"), Num(45366), Num(45658), NaN, NaN,
             NaN, Str("Printer"), Str("M2"), NaN,
             Num(5), NaN),
       MkRow(Str("Passed"), Str("2024-03-15"), Num(45658), Str("South"), Str("S1"),
             Str("Ravi"), Str("Camera"), Str("M1"), Str("Online"),
             Num(10), Num(100)),
       MkRow(Str("Passed"), Str("n/a"), Num(45658), Str("North"), Str("S1"),
             Str("Asha"), Str("Camera"), Str("M1"), Str("Walk-in"),
             Num(7), Num(70)),
       MkRow(Str("Passed"), Num(46023), Num(45292), Str("North"), Str("S2"),
             Str("Asha"), Str("Printer"), Str("M2"), Str("Online"),
             Num(3), Num(30)),
       MkRow(Str("Passed"), Num(45291), Num(45292), Str("South"), Str("S2"),
             Str("Ravi"), Str("Printer"), Str("M2"), Str("Online"),
             Num(4), Num(40)),
       MkRow(Str("Passed"), NaN, Num(45292), Str("South"), Str("S2"),
             Str("Ravi"), Str("Printer"), Str("M2"), Str("Online"),
             Num(4), Num(20)) >>

\* Sheets of at most n pool rows, rows in pool order (no view depends on
\* row order: every groupby sorts by key).
PoolTables(n) ==
    UNION { { [i \in 1..k |-> RowPool[ix[i]]] :
              ix \in { f \in [1..k -> 1..Len(RowPool)] :
                         \A i \in 1..k, j \in 1..k : i < j => f[i] <= f[j] } } :
            k \in 0..n }

SellerNames ==
    <<"N01","N02","N03","N04","N05","N06","N07","N08","N09","N10","N11">>
GroupStores == <<"S1","S2","S3","S4","S5","S6">>
GroupCats   == <<"C1","C2","C3","C4","C5","C6">>
GroupModels == <<"M1","M2","M3","M4","M5","M6">>

\* Quantities 1..n, except that row p (when p > 0) ties with row p + 1.
TieQty(i, p) == IF p > 0 /\ i = p THEN i + 1 ELSE i

\* One more seller than the leaderboard shows.
SellerTables ==
    { [i \in 1..(LeaderboardN + 1) |->
         MkRow(Str("Passed"), Num(45292), Num(45658), Str("North"), Str("S1"),
               Str(SellerNames[i]), Str("Camera"), Str("M1"), Str("Online"),
               Num(TieQty(i, p)), Num(10 * TieQty(i, p)))] :
      p \in 0..LeaderboardN }

\* One more store, category and model than a top-5 view shows.
GroupTables ==
    { [i \in 1..(TopN + 1) |->
         MkRow(Str("Passed"), Num(45292), Num(45658), Str("North"),
               Str(GroupStores[i]), Str("Asha"), Str(GroupCats[i]),
               Str(GroupModels[i]), Str("Online"),
               Num(TieQty(i, p)), Num(10 * TieQty(i, p)))] :
      p \in 0..TopN }

H(raw, field) == [raw |-> raw, field |-> field]

OtherHeaders ==
    << H(cStatus, "status"), H(cCity, "city"), H(cStore, "store"),
       H(cName, "name"), H(cCategory, "category"), H(cModel, "model"),
       H(cLead, "lead"), H(cQty, "qty"), H(cValue, "value") >>

SelectFields(hs, omit) == SelectSeq(hs, LAMBDA h : h.field \notin omit)

\* A header row: the date headers first, then the others without `omit`.
Layout(dates, omit) == dates \o SelectFields(OtherHeaders, omit)

StandardLayout == Layout(<<H(cReferDate, "date")>>, {})

OtherLayouts ==
    { \* header cells padded with blanks
      <<H(<<" ">> \o cDate \o <<" ">>, "date"), H(cStatus \o <<" ">>, "status"),
        H(<<" ">> \o cCity, "city")>> \o SelectFields(OtherHeaders, {"status", "city"}),
      \* lower-case and upper-case spellings of an alias
      Layout(<<H(<<"r","e","f","e","r"," ","d","a","t","e">>, "date")>>, {}),
      Layout(<<H(<<" ","D","A","T","E"," ">>, "date")>>, {}),
      \* no date column at all
      Layout(<<>>, {}),
      Layout(<<>>, {"city", "status"}),
      \* two date columns, the later alias first in the sheet
      Layout(<<H(cDate, "date2"), H(cReferDate, "date")>>, {}),
      Layout(<<H(cInvoiceDate, "date"), H(cRefDate, "date2")>>, {}),
      \* optional Sales Value column absent
      Layout(<<H(cReferDate, "date")>>, {"value"}),
      \* a column the report reads is absent
      Layout(<<H(cReferDate, "date")>>, {"city"}),
      Layout(<<H(cReferDate, "date")>>, {"store"}),
      Layout(<<H(cReferDate, "date")>>, {"name"}),
      Layout(<<H(cReferDate, "date")>>, {"status"}),
      Layout(<<H(cReferDate, "date")>>, {"qty"}),
      Layout(<<H(cReferDate, "date")>>, {"category"}),
      Layout(<<H(cReferDate, "date")>>, {"model"}),
      Layout(<<H(cReferDate, "date")>>, {"lead"}),
      Layout(<<H(cReferDate, "date")>>, {"city", "status", "lead"}) }

\* The sheet as read_excel returns it: raw header names and positional rows.
MkFile(layout, table) ==
    [headers |-> [i \in 1..Len(layout) |-> layout[i].raw],
     rows    |-> [k \in 1..Len(table) |->
                    [i \in 1..Len(layout) |-> table[k][layout[i].field]]]]

Files ==
    { MkFile(StandardLayout, t) :
        t \in PoolTables(MaxRows) \cup SellerTables \cup GroupTables }
    \cup { MkFile(l, t) : l \in OtherLayouts, t \in PoolTables(MaxHdrRows) }

----------------------------------------------------------------------------
(* Date normalisation *)

\* Calendar date of a day number counted from 1899-12-30
\* (pd.to_datetime(unit="D", origin="1899-12-30"), then .dt.year/.dt.month).
CivilFromSerial(d) ==
    LET z   == d + OriginShift
        era == z \div 146097
        doe == z - era * 146097
        yoe == (doe - doe \div 1460 + doe \div 36524 - doe \div 146096) \div 365
        doy == doe - (365 * yoe + yoe \div 4 - yoe \div 100)
        mp  == (5 * doy + 2) \div 153
        m   == IF mp < 10 THEN mp + 3 ELSE mp - 9
    IN  [year  |-> yoe + era * 400 + (IF m <= 2 THEN 1 ELSE 0),
         month |-> m,
         day   |-> doy - (153 * mp + 2) \div 5 + 1]

\* The date texts of the input space with the day number each parses to.
DateTexts ==
    << [s |-> "2024-03-15", d |-> 45366], [s |-> "2025-11-02", d |-> 45963],
       [s |-> "2026-01-01", d |-> 46023] >>

\* pd.to_datetime(text, errors="coerce"): NaT for a text that is no date.
ParseDateText(s) ==
    IF \E i \in DOMAIN DateTexts : DateTexts[i].s = s
    THEN Ts(DateTexts[CHOOSE i \in DOMAIN DateTexts : DateTexts[i].s = s].d)
    ELSE NaN

\* pd.api.types.is_numeric_dtype: a column of numbers and blanks is float64.
IsNumericColumn(rows, col) == \A i \in DOMAIN rows : rows[i][col].t \in {"num", "nan"}

\* One cell through to_datetime.  In an object column a number is read as
\* nanoseconds after 1970-01-01 (day number 25569) or, when a format is
\* inferred from a leading text, coerced to NaT; lines 65 and 69 drop the
\* record either way.
ToDatetime(c, numeric) ==
    IF c.t = "num" THEN (IF numeric THEN Ts(c.n) ELSE Ts(25569))
    ELSE IF c.t = "str" THEN ParseDateText(c.s)
    ELSE NaN

MonthAbbr == <<"Jan","Feb","Mar","Apr","May","Jun","Jul","Aug","Sep","Oct","Nov","Dec">>

\* The row with its date converted and Year, Month_No, Month_Name attached.
WithDateFields(r, col, numeric) ==
    LET ts  == ToDatetime(r[col], numeric)
        ymd == CivilFromSerial(ts.n)
    IN  [c \in DOMAIN r \cup {cYear, cMonthNo, cMonthName} |->
           IF c = col THEN ts
           ELSE IF c = cYear THEN (IF IsNa(ts) THEN NaN ELSE Num(ymd.year))
           ELSE IF c = cMonthNo THEN (IF IsNa(ts) THEN NaN ELSE Num(ymd.month))
           ELSE IF c = cMonthName THEN (IF IsNa(ts) THEN NaN ELSE Str(MonthAbbr[ymd.month]))
           ELSE r[c]]

\* (mutation) only the lower end is tested.
Between_LowerOnly(c, lo, hi) == c.t = "num" /\ lo <= c.n

\* Series.between(lo, hi): both ends inclusive, False for a missing value.
Between(c, lo, hi) == c.t = "num" /\ lo <= c.n /\ c.n <= hi

\* Lines 60-69: convert, dropna on the date, derive, keep 2024..2025.
DateHandling(rows, col) ==
    LET numeric == IsNumericColumn(rows, col)
        conv    == [i \in DOMAIN rows |-> WithDateFields(rows[i], col, numeric)]
        kept    == SelectSeq(conv, LAMBDA r : ~IsNa(r[col]))
    IN  SelectSeq(kept, LAMBDA r : Between(r[cYear], YearLo, YearHi))

----------------------------------------------------------------------------
(* Column lookup, options, filters *)

\* next((c for c in possible_date_cols if c in df.columns), None);
\* <<>> stands for None.
RECURSIVE FirstAlias(_, _)
FirstAlias(aliases, cols) ==
    IF aliases = <<>> THEN <<>>
    ELSE IF Head(aliases) \in cols THEN Head(aliases)
    ELSE FirstAlias(Tail(aliases), cols)

\* df[col].dropna().unique()
Options(rows, col) == {rows[i][col] : i \in DOMAIN rows} \ {NaN}

\* (mutation) a missing value passes any selection.
IsIn_MissingMatches(c, sel) == c \in sel \/ IsNa(c)

\* Series.isin(selection): a missing value is in no selection of options.
IsIn(c, sel) == c \in sel

\* (mutation) the `if selection:` guard is left out.
FilterBy_NoGuard(rows, col, sel) == SelectSeq(rows, LAMBDA r : r[col] \in sel)

\* if selection: df = df[df[col].isin(selection)]
FilterBy(rows, col, sel) ==
    IF sel # {} THEN SelectSeq(rows, LAMBDA r : IsIn(r[col], sel)) ELSE rows

\* (mutation) the Status filter is left out.
PassedOnly_AnyStatus(rows) == rows

\* df[df["Status"] == "Passed"]
PassedOnly(rows) == SelectSeq(rows, LAMBDA r : r[cStatus] = Str("Passed"))

\* Lines 99-108.
ApplyFilters(rows, sy, sc, ss, sn) ==
    FilterBy(FilterBy(FilterBy(FilterBy(PassedOnly(rows), cYear, sy),
                               cCity, sc), cStore, ss), cName, sn)

----------------------------------------------------------------------------
(* Grouped sums and ranking *)

\* Series.sum(): missing values are skipped, an empty sum is 0.
RECURSIVE SumCol(_, _)
SumCol(rows, col) ==
    IF rows = <<>> THEN 0
    ELSE (IF Head(rows)[col].t = "num" THEN Head(rows)[col].n ELSE 0)
         + SumCol(Tail(rows), col)

\* The data strings of the input space in Python's string order.
Collation ==
    << "Asha", "C1", "C2", "C3", "C4", "C5", "C6", "Camera",
       "M1", "M2", "M3", "M4", "M5", "M6",
       "N01", "N02", "N03", "N04", "N05", "N06", "N07", "N08", "N09", "N10", "N11",
       "North", "Online", "Printer", "Ravi",
       "S1", "S2", "S3", "S4", "S5", "S6", "South", "Walk-in" >>

StrRank(s) == CHOOSE i \in DOMAIN Collation : Collation[i] = s

\* Order of group keys: numbers by value, strings by string order.
KeyLess(a, b) ==
    IF a.t = "num" /\ b.t = "num" THEN a.n < b.n ELSE StrRank(a.s) < StrRank(b.s)

RECURSIVE SortKeys(_)
SortKeys(S) ==
    IF S = {} THEN <<>>
    ELSE LET m == CHOOSE x \in S : \A y \in S \ {x} : KeyLess(x, y)
         IN  <<m>> \o SortKeys(S \ {m})

\* The keys a groupby keeps: dropna=True leaves out a missing key.
GroupKeys(rows, col) == {rows[i][col] : i \in DOMAIN rows} \ {NaN}

\* df.groupby(col, as_index=False)[measure].sum(): one row per key present,
\* in ascending key order.
GroupSum(rows, col, measure) ==
    LET keys == SortKeys(GroupKeys(rows, col))
    IN  [i \in DOMAIN keys |->
           [k |-> keys[i],
            v |-> SumCol(SelectSeq(rows, LAMBDA r : r[col] = keys[i]), measure)]]

\* (mutation) ascending=False is left out.
RECURSIVE SortDescOutcomes_Ascending(_)
SortDescOutcomes_Ascending(G) ==
    IF G = {} THEN {<<>>}
    ELSE UNION { { <<g>> \o t : t \in SortDescOutcomes_Ascending(G \ {g}) } :
                 g \in { x \in G : \A y \in G : x.v <= y.v } }

\* sort_values(measure, ascending=False) with the default kind="quicksort",
\* which is not stable: every descending arrangement is a possible result.
RECURSIVE SortDescOutcomes(_)
SortDescOutcomes(G) ==
    IF G = {} THEN {<<>>}
    ELSE UNION { { <<g>> \o t : t \in SortDescOutcomes(G \ {g}) } :
                 g \in { x \in G : \A y \in G : y.v <= x.v } }

\* .head(n)
HeadN(s, n) == SubSeq(s, 1, IF Len(s) < n THEN Len(s) ELSE n)

\* groupby(col)[measure].sum().sort_values(measure, ascending=False).head(n)
TopGroups(rows, col, measure, n) ==
    { HeadN(s, n) : s \in SortDescOutcomes(Range(GroupSum(rows, col, measure))) }

\* groupby(["Month_No", "Month_Name"])[measure].sum().sort_values("Month_No"):
\* Month_Name is a function of Month_No, so the keys are the month numbers.
MonthSum(rows, measure) ==
    LET g == GroupSum(rows, cMonthNo, measure)
    IN  [i \in DOMAIN g |->
           [k |-> g[i].k, name |-> MonthAbbr[g[i].k.n], v |-> g[i].v]]

----------------------------------------------------------------------------
(* State *)

VARIABLES
    uploaded_file,    \* <<>> (None) or <<the uploaded sheet>>
    pc,               \* position of the script run
    columns,          \* df.columns
    df,               \* the working set
    DATE_COL,         \* the resolved date column, <<>> for None
    selected_year, selected_city, selected_store, selected_name,
    df_filtered,
    total_qty, total_value, total_orders, prev_value,
    month_qty, month_val, cat_qty, cat_val,
    top_products, top_stores, leaderboard, lead_source_perf,
    shown,            \* widgets, messages and charts emitted by this run
    raised            \* the column name of an uncaught KeyError, <<>> for none

frame   == <<columns, df, DATE_COL>>
selects == <<selected_year, selected_city, selected_store, selected_name>>
kpis    == <<total_qty, total_value, total_orders, prev_value>>
trend   == <<month_qty, month_val>>
cats    == <<cat_qty, cat_val>>
tops    == <<top_products, top_stores>>
vars    == <<uploaded_file, pc, frame, selects, df_filtered, kpis, trend, cats,
             tops, leaderboard, lead_source_perf, shown, raised>>

ColumnSet == Range(columns)

\* The script's variables before any line has run.
Fresh ==
    /\ columns = <<>> /\ df = <<>> /\ DATE_COL = <<>>
    /\ selected_year = {} /\ selected_city = {}
    /\ selected_store = {} /\ selected_name = {}
    /\ df_filtered = <<>>
    /\ total_qty = 0 /\ total_value = 0 /\ total_orders = 0 /\ prev_value = 0
    /\ month_qty = <<>> /\ month_val = <<>> /\ cat_qty = <<>> /\ cat_val = <<>>
    /\ top_products = <<>> /\ top_stores = <<>>
    /\ leaderboard = <<>> /\ lead_source_perf = <<>>
    /\ shown = {} /\ raised = <<>>

Init == uploaded_file = <<>> /\ pc = "start" /\ Fresh

\* What a multiselect can return: the default (every option) or a smaller pick.
SelectionChoices(opts) ==
    {sel \in SUBSET opts : Cardinality(sel) <= MaxPick} \cup {opts}

----------------------------------------------------------------------------
(* The script, top to bottom *)

\* Lines 32-34: nothing uploaded.
StopNoFile ==
    /\ pc = "start" /\ uploaded_file = <<>>
    /\ pc' = "stopped"
    /\ shown' = shown \cup {"warning: upload"}
    /\ UNCHANGED <<uploaded_file, frame, selects, df_filtered, kpis, trend, cats,
                   tops, leaderboard, lead_source_perf, raised>>

\* Lines 49-50: read the sheet, strip the column names.
LoadData ==
    /\ pc = "start" /\ uploaded_file # <<>>
    /\ LET f    == uploaded_file[1]
           cols == [i \in DOMAIN f.headers |-> Strip(f.headers[i])]
           at   == [c \in Range(cols) |-> CHOOSE i \in DOMAIN cols : cols[i] = c]
       IN  /\ columns' = cols
           /\ df' = [k \in DOMAIN f.rows |-> [c \in Range(cols) |-> f.rows[k][at[c]]]]
    /\ pc' = "date"
    /\ UNCHANGED <<uploaded_file, DATE_COL, selects, df_filtered, kpis, trend,
                   cats, tops, leaderboard, lead_source_perf, shown, raised>>

\* Lines 53-58: no alias is a column.
DateColNotFound ==
    /\ pc = "date"
    /\ FirstAlias(possible_date_cols, ColumnSet) = <<>>
    /\ pc' = "stopped"
    /\ shown' = shown \cup {"error: date column"}
    /\ UNCHANGED <<uploaded_file, frame, selects, df_filtered, kpis, trend, cats,
                   tops, leaderboard, lead_source_perf, raised>>

\* Lines 53-69.
NormalizeDates ==
    /\ pc = "date"
    /\ FirstAlias(possible_date_cols, ColumnSet) # <<>>
    /\ DATE_COL' = FirstAlias(possible_date_cols, ColumnSet)
    /\ df' = DateHandling(df, DATE_COL')
    /\ columns' = columns \o SelectSeq(<<cYear, cMonthNo, cMonthName>>,
                                       LAMBDA c : c \notin ColumnSet)
    /\ pc' = "sidebar"
    /\ UNCHANGED <<uploaded_file, selects, df_filtered, kpis, trend, cats, tops,
                   leaderboard, lead_source_perf, shown, raised>>

\* An uncaught KeyError on df[col] ends the run.
KeyErrorAt(col) == pc' = "crashed" /\ raised' = col

\* Lines 75-94: the four multiselects, in order; df["City"], df["Storename"]
\* and df["Name"] are read to build the options.
SidebarFilters ==
    /\ pc = "sidebar"
    /\ \E sy \in SelectionChoices(Options(df, cYear)) :
         /\ selected_year' = sy
         /\ IF cCity \notin ColumnSet
            THEN /\ KeyErrorAt(cCity)
                 /\ shown' = shown \cup {"Year"}
                 /\ UNCHANGED <<selected_city, selected_store, selected_name>>
            ELSE \E sc \in SelectionChoices(Options(df, cCity)) :
              /\ selected_city' = sc
              /\ IF cStore \notin ColumnSet
                 THEN /\ KeyErrorAt(cStore)
                      /\ shown' = shown \cup {"Year", "City"}
                      /\ UNCHANGED <<selected_store, selected_name>>
                 ELSE \E ss \in SelectionChoices(Options(df, cStore)) :
                   /\ selected_store' = ss
                   /\ IF cName \notin ColumnSet
                      THEN /\ KeyErrorAt(cName)
                           /\ shown' = shown \cup {"Year", "City", "Store Name"}
                           /\ UNCHANGED selected_name
                      ELSE \E sn \in SelectionChoices(Options(df, cName)) :
                        /\ selected_name' = sn
                        /\ shown' = shown \cup {"Year", "City", "Store Name", "Name"}
                        /\ pc' = "apply"
                        /\ UNCHANGED raised
    /\ UNCHANGED <<uploaded_file, frame, df_filtered, kpis, trend, cats, tops,
                   leaderboard, lead_source_perf>>

\* Lines 99-108.
FilterStep ==
    /\ pc = "apply"
    /\ IF cStatus \notin ColumnSet
       THEN KeyErrorAt(cStatus) /\ UNCHANGED df_filtered
       ELSE /\ df_filtered' = ApplyFilters(df, selected_year, selected_city,
                                           selected_store, selected_name)
            /\ pc' = "check"
            /\ UNCHANGED raised
    /\ UNCHANGED <<uploaded_file, frame, selects, kpis, trend, cats, tops,
                   leaderboard, lead_source_perf, shown>>

\* (mutation) st.stop() is left out: the message is shown and the run goes on
\* to the KPI cards.
StopEmpty_NoStop ==
    /\ pc = "check" /\ df_filtered = <<>>
    /\ pc' = "trend"
    /\ shown' = shown \cup {"error: no data", "kpi"}
    /\ UNCHANGED <<uploaded_file, frame, selects, df_filtered, kpis, trend, cats,
                   tops, leaderboard, lead_source_perf, raised>>

\* Lines 110-112.
StopEmpty ==
    /\ pc = "check" /\ df_filtered = <<>>
    /\ pc' = "stopped"
    /\ shown' = shown \cup {"error: no data"}
    /\ UNCHANGED <<uploaded_file, frame, selects, df_filtered, kpis, trend, cats,
                   tops, leaderboard, lead_source_perf, raised>>

HasValue == cValue \in ColumnSet

\* Lines 142-165 (the two ratios shown on the cards are not kept).
KPICards ==
    /\ pc = "check" /\ df_filtered # <<>>
    /\ IF cQty \notin ColumnSet
       THEN KeyErrorAt(cQty) /\ UNCHANGED <<kpis, shown>>
       ELSE /\ total_qty' = SumCol(df_filtered, cQty)
            /\ total_value' = IF HasValue THEN SumCol(df_filtered, cValue) ELSE 0
            /\ total_orders' = Len(df_filtered)
            /\ LET current_year ==
                     CHOOSE y \in Options(df_filtered, cYear) :
                        \A z \in Options(df_filtered, cYear) : z.n <= y.n
                   prev_year_data ==
                     SelectSeq(df, LAMBDA r : /\ r[cYear] = Num(current_year.n - 1)
                                              /\ r[cStatus] = Str("Passed"))
               IN  prev_value' = IF HasValue THEN SumCol(prev_year_data, cValue) ELSE 0
            /\ shown' = shown \cup {"kpi"}
            /\ pc' = "trend"
            /\ UNCHANGED raised
    /\ UNCHANGED <<uploaded_file, frame, selects, df_filtered, trend, cats, tops,
                   leaderboard, lead_source_perf>>

\* Lines 174-211.
MonthTrend ==
    /\ pc = "trend"
    /\ month_qty' = MonthSum(df_filtered, cQty)
    /\ month_val' = IF HasValue THEN MonthSum(df_filtered, cValue) ELSE <<>>
    /\ shown' = shown \cup {"trend"}
    /\ pc' = "categories"
    /\ UNCHANGED <<uploaded_file, frame, selects, df_filtered, kpis, cats, tops,
                   leaderboard, lead_source_perf, raised>>

\* Lines 216-253.
TopCategories ==
    /\ pc = "categories"
    /\ IF cCategory \notin ColumnSet
       THEN KeyErrorAt(cCategory) /\ UNCHANGED <<cats, shown>>
       ELSE /\ cat_qty' \in TopGroups(df_filtered, cCategory, cQty, TopN)
            /\ IF HasValue
               THEN /\ cat_val' \in TopGroups(df_filtered, cCategory, cValue, TopN)
                    /\ shown' = shown \cup {"cat_qty", "cat_val"}
               ELSE /\ cat_val' = <<>>
                    /\ shown' = shown \cup {"cat_qty"}
            /\ pc' = "products"
            /\ UNCHANGED raised
    /\ UNCHANGED <<uploaded_file, frame, selects, df_filtered, kpis, trend, tops,
                   leaderboard, lead_source_perf>>

\* Lines 258-294.
TopProductsStores ==
    /\ pc = "products"
    /\ IF cModel \notin ColumnSet
       THEN KeyErrorAt(cModel) /\ UNCHANGED <<tops, shown>>
       ELSE /\ top_products' \in TopGroups(df_filtered, cModel, cQty, TopN)
            /\ top_stores' \in TopGroups(df_filtered, cStore, cQty, TopN)
            /\ shown' = shown \cup {"top_products", "top_stores"}
            /\ pc' = "leaderboard"
            /\ UNCHANGED raised
    /\ UNCHANGED <<uploaded_file, frame, selects, df_filtered, kpis, trend, cats,
                   leaderboard, lead_source_perf>>

\* Lines 299-317.
Leaderboard ==
    /\ pc = "leaderboard"
    /\ leaderboard' \in TopGroups(df_filtered, cName, cQty, LeaderboardN)
    /\ shown' = shown \cup {"leaderboard"}
    /\ pc' = "lead"
    /\ UNCHANGED <<uploaded_file, frame, selects, df_filtered, kpis, trend, cats,
                   tops, lead_source_perf, raised>>

\* Lines 322-338.
LeadSource ==
    /\ pc = "lead"
    /\ IF cLead \notin ColumnSet
       THEN KeyErrorAt(cLead) /\ UNCHANGED <<lead_source_perf, shown>>
       ELSE /\ lead_source_perf' = GroupSum(df_filtered, cLead, cQty)
            /\ shown' = shown \cup {"lead_source"}
            /\ pc' = "done"
            /\ UNCHANGED raised
    /\ UNCHANGED <<uploaded_file, frame, selects, df_filtered, kpis, trend, cats,
                   tops, leaderboard>>

Ended == pc \in {"stopped", "done", "crashed"}

FreshNext ==
    /\ columns' = <<>> /\ df' = <<>> /\ DATE_COL' = <<>>
    /\ selected_year' = {} /\ selected_city' = {}
    /\ selected_store' = {} /\ selected_name' = {}
    /\ df_filtered' = <<>>
    /\ total_qty' = 0 /\ total_value' = 0 /\ total_orders' = 0 /\ prev_value' = 0
    /\ month_qty' = <<>> /\ month_val' = <<>> /\ cat_qty' = <<>> /\ cat_val' = <<>>
    /\ top_products' = <<>> /\ top_stores' = <<>>
    /\ leaderboard' = <<>> /\ lead_source_perf' = <<>>
    /\ shown' = {} /\ raised' = <<>>

\* The user uploads a sheet (line 30); the script runs again from the top.
\* A session holds one sheet: a replaced sheet would start the same run from
\* the same fresh variables.
Upload ==
    /\ Ended /\ uploaded_file = <<>>
    /\ \E f \in Files : uploaded_file' = <<f>>
    /\ pc' = "start"
    /\ FreshNext

\* A widget interaction: the script runs again from the top on the same sheet.
Rerun ==
    /\ Ended /\ uploaded_file # <<>>
    /\ pc' = "start"
    /\ FreshNext
    /\ UNCHANGED uploaded_file

Next ==
    \/ StopNoFile \/ LoadData \/ DateColNotFound \/ NormalizeDates
    \/ SidebarFilters \/ FilterStep \/ StopEmpty \/ KPICards \/ MonthTrend
    \/ TopCategories \/ TopProductsStores \/ Leaderboard \/ LeadSource
    \/ Upload \/ Rerun

Spec == Init /\ [][Next]_vars

----------------------------------------------------------------------------
(* Vocabulary shared by the properties *)

Widgets    == {"Year", "City", "Store Name", "Name"}
Aggregates == {"kpi", "trend", "cat_qty", "cat_val", "top_products",
               "top_stores", "leaderboard", "lead_source"}

\* Lines 99-108 have run in this run.
FilterDone ==
    /\ "Name" \in shown
    /\ pc # "apply"
    /\ ~(pc = "crashed" /\ raised = cStatus)

\* Lines 53-69 have run in this run (the column was found or the run stopped).
DateStepDone == uploaded_file # <<>> /\ pc \notin {"start", "date"}

RECURSIVE SumV(_)
SumV(g) == IF g = <<>> THEN 0 ELSE Head(g).v + SumV(Tail(g))

Min(a, b) == IF a < b THEN a ELSE b

\* The spec's scenario: Passed North 10, Failed North 99, Passed South 5.
ScenarioFile == MkFile(StandardLayout, <<RowPool[1], RowPool[2], RowPool[3]>>)

NoSelection ==
    /\ selected_year = {} /\ selected_city = {}
    /\ selected_store = {} /\ selected_name = {}

----------------------------------------------------------------------------
(* C1 *)

Satisfies(r, col, sel) == sel = {} \/ r[col] \in sel

\* C1: the filtered set is exactly the working-set records whose Status is
\* "Passed" and which satisfy every non-empty selection at once; on the
\* scenario with nothing selected it has 2 records and quantity total 15.
C1_FilteredSetIsConjunction ==
    /\ FilterDone =>
         df_filtered =
           SelectSeq(df, LAMBDA r : /\ r[cStatus] = Str("Passed")
                                    /\ Satisfies(r, cYear, selected_year)
                                    /\ Satisfies(r, cCity, selected_city)
                                    /\ Satisfies(r, cStore, selected_store)
                                    /\ Satisfies(r, cName, selected_name))
    /\ (uploaded_file = <<ScenarioFile>> /\ NoSelection /\ "kpi" \in shown) =>
         Len(df_filtered) = 2 /\ total_qty = 15

C1_Witness ==
    /\ uploaded_file = <<ScenarioFile>> /\ NoSelection /\ "kpi" \in shown
    /\ Len(df) = 3 /\ Len(df_filtered) = 2 /\ total_qty = 15

----------------------------------------------------------------------------
(* C2 *)

\* The filter steps of lines 99-108 with the steps of the columns in `skip`
\* left out.
FilterSkipping(skip) ==
    LET step(rows, col, sel) == IF col \in skip THEN rows ELSE FilterBy(rows, col, sel)
    IN  step(step(step(step(PassedOnly(df), cYear, selected_year),
                       cCity, selected_city), cStore, selected_store),
             cName, selected_name)

\* C2: an empty selection on Year, City, Store or Name gives the filtered set
\* that skipping that filter step gives, the other selections held fixed.
C2_EmptySelectionIsPassThrough ==
    FilterDone =>
      /\ selected_year = {}  => df_filtered = FilterSkipping({cYear})
      /\ selected_city = {}  => df_filtered = FilterSkipping({cCity})
      /\ selected_store = {} => df_filtered = FilterSkipping({cStore})
      /\ selected_name = {}  => df_filtered = FilterSkipping({cName})

C2_Witness ==
    /\ FilterDone
    /\ selected_city = {} /\ Cardinality(Options(df, cCity)) = 2
    /\ selected_year # {} /\ selected_name # {}
    /\ df_filtered # <<>>

----------------------------------------------------------------------------
(* C3 *)

\* C3: the group rows of the month view and of the Source Of Lead view each
\* sum to the KPI total quantity of the filtered records.
C3_GroupRowsSumToTotal ==
    pc = "done" =>
      /\ SumV(month_qty) = total_qty
      /\ SumV(lead_source_perf) = total_qty

----------------------------------------------------------------------------
(* C4 *)

\* The distinct groups of the filtered set on a column: its present values.
GroupsOf(col) == {df_filtered[i][col] : i \in DOMAIN df_filtered} \ {NaN}

FullSum(col, k, measure) ==
    SumCol(SelectSeq(df_filtered, LAMBDA r : r[col] = k), measure)

TopViewOK(res, col, measure, n) ==
    /\ Len(res) = Min(n, Cardinality(GroupsOf(col)))
    /\ \A i \in DOMAIN res :
         /\ res[i].k \in GroupsOf(col)
         /\ res[i].v = FullSum(col, res[i].k, measure)
    /\ \A i \in DOMAIN res, j \in DOMAIN res :
         i < j => res[i].k # res[j].k /\ res[i].v >= res[j].v
    /\ \A k \in GroupsOf(col) \ {res[i].k : i \in DOMAIN res} :
         \A i \in DOMAIN res : FullSum(col, k, measure) <= res[i].v

\* C4: every top-N view holds min(N, number of distinct groups) rows, each a
\* distinct group with its full sum, in descending order of the measure, and
\* no group left out has a strictly larger sum than a group returned.
C4_TopNViews ==
    /\ "cat_qty" \in shown => TopViewOK(cat_qty, cCategory, cQty, TopN)
    /\ "cat_val" \in shown => TopViewOK(cat_val, cCategory, cValue, TopN)
    /\ "top_products" \in shown => TopViewOK(top_products, cModel, cQty, TopN)
    /\ "top_stores" \in shown => TopViewOK(top_stores, cStore, cQty, TopN)
    /\ "leaderboard" \in shown => TopViewOK(leaderboard, cName, cQty, LeaderboardN)

\* More sellers than the leaderboard shows, fewer categories than a top 5.
C4_Witness ==
    /\ "leaderboard" \in shown
    /\ Cardinality(GroupsOf(cName)) = LeaderboardN + 1
    /\ Len(leaderboard) = LeaderboardN
    /\ Len(cat_qty) = 1

----------------------------------------------------------------------------
(* C5 *)

\* Descending stable sort: among equal measures the input order is kept.
RECURSIVE StableSortDesc(_)
StableSortDesc(s) ==
    IF s = <<>> THEN <<>>
    ELSE LET i == CHOOSE a \in DOMAIN s :
                    /\ \A b \in DOMAIN s : s[b].v <= s[a].v
                    /\ \A b \in 1..(a - 1) : s[b].v < s[a].v
         IN  <<s[i]>> \o StableSortDesc(SubSeq(s, 1, i - 1) \o SubSeq(s, i + 1, Len(s)))

StableTop(col, measure, n) ==
    HeadN(StableSortDesc(GroupSum(df_filtered, col, measure)), n)

\* C5: in every top-N view tied groups keep the order they have in the input
\* to the sort, so the view is the first N rows of the stable descending sort.
C5_TiesKeepInputOrder ==
    /\ "cat_qty" \in shown => cat_qty = StableTop(cCategory, cQty, TopN)
    /\ "cat_val" \in shown => cat_val = StableTop(cCategory, cValue, TopN)
    /\ "top_products" \in shown => top_products = StableTop(cModel, cQty, TopN)
    /\ "top_stores" \in shown => top_stores = StableTop(cStore, cQty, TopN)
    /\ "leaderboard" \in shown => leaderboard = StableTop(cName, cQty, LeaderboardN)

----------------------------------------------------------------------------
(* C6 *)

UpperChars == <<"A","B","C","D","E","F","G","H","I","J","K","L","M",
                "N","O","P","Q","R","S","T","U","V","W","X","Y","Z">>
LowerChars == <<"a","b","c","d","e","f","g","h","i","j","k","l","m",
                "n","o","p","q","r","s","t","u","v","w","x","y","z">>

LowerChar(c) ==
    IF \E i \in DOMAIN UpperChars : UpperChars[i] = c
    THEN LowerChars[CHOOSE i \in DOMAIN UpperChars : UpperChars[i] = c]
    ELSE c

Lower(s) == [i \in DOMAIN s |-> LowerChar(s[i])]

\* The aliases some header equals after trimming, letter case ignored.
MatchingAliases ==
    { i \in DOMAIN possible_date_cols :
        \E h \in Range(uploaded_file[1].headers) :
           Lower(Strip(h)) = Lower(possible_date_cols[i]) }

\* C6: the date field resolves whenever some header, trimmed and with letter
\* case ignored, equals an accepted alias, and the first such alias wins.
C6_CaseInsensitiveDateColumn ==
    (DateStepDone /\ MatchingAliases # {}) =>
       /\ DATE_COL # <<>>
       /\ \A i \in MatchingAliases :
            (\A j \in MatchingAliases : i <= j) =>
               Lower(DATE_COL) = Lower(possible_date_cols[i])

----------------------------------------------------------------------------
(* C7 *)

\* The fields the report reads, with the columns that can supply each.
RequiredFields ==
    { [field |-> "date", names |-> Range(possible_date_cols)],
      [field |-> "status", names |-> {cStatus}],
      [field |-> "sales quantity", names |-> {cQty}],
      [field |-> "name", names |-> {cName}],
      [field |-> "city", names |-> {cCity}],
      [field |-> "store", names |-> {cStore}],
      [field |-> "product category", names |-> {cCategory}],
      [field |-> "model name", names |-> {cModel}],
      [field |-> "lead source", names |-> {cLead}] }

MissingFields ==
    { rf.field : rf \in
        { x \in RequiredFields :
            \A h \in Range(uploaded_file[1].headers) : Strip(h) \notin x.names } }

\* The fields named by the error message of this run.
NamedMissing == IF "error: date column" \in shown THEN {"date"} ELSE {}

\* C7: with a required field missing the run never shows a widget or an
\* aggregate and never fails uncontrolled, and it ends stopped on an error
\* that names every missing field.
C7_MissingColumnsReportedTogether ==
    (uploaded_file # <<>> /\ MissingFields # {}) =>
       /\ pc # "crashed"
       /\ shown \cap (Widgets \cup Aggregates) = {}
       /\ Ended => pc = "stopped" /\ NamedMissing = MissingFields

----------------------------------------------------------------------------
(* C8 *)

GroupRowsOver(view, col, measure) ==
    \A i \in DOMAIN view : view[i].v = FullSum(col, view[i].k, measure)

NothingComputed ==
    /\ total_qty = 0 /\ total_value = 0 /\ total_orders = 0 /\ prev_value = 0
    /\ month_qty = <<>> /\ month_val = <<>> /\ cat_qty = <<>> /\ cat_val = <<>>
    /\ top_products = <<>> /\ top_stores = <<>>
    /\ leaderboard = <<>> /\ lead_source_perf = <<>>

----------------------------------------------------------------------------
(* C9 *)

\* The sheet rows as loaded, before the date step.
LoadedRows ==
    LET f    == uploaded_file[1]
        cols == [i \in DOMAIN f.headers |-> Strip(f.headers[i])]
        at   == [c \in Range(cols) |-> CHOOSE i \in DOMAIN cols : cols[i] = c]
    IN  [k \in DOMAIN f.rows |-> [c \in Range(cols) |-> f.rows[k][at[c]]]]

\* The date cell holds a calendar date of 2024 or 2025.
DateInRange(c, numeric) ==
    LET ts == IF c.t = "num" /\ numeric THEN Ts(c.n)
              ELSE IF c.t = "str" THEN ParseDateText(c.s)
              ELSE NaN
    IN  ts.t = "ts" /\ CivilFromSerial(ts.n).year \in {2024, 2025}

WorkingRowOK(r) ==
    /\ r[DATE_COL].t = "ts"
    /\ r[cYear].t = "num" /\ r[cYear].n \in 2024..2025
    /\ r[cMonthNo].t = "num" /\ r[cMonthNo].n \in 1..12
    /\ r[cYear].n = CivilFromSerial(r[DATE_COL].n).year
    /\ r[cMonthNo].n = CivilFromSerial(r[DATE_COL].n).month

\* C9: every record of the working set and of the filtered set has a date with
\* year in 2024..2025 and month in 1..12; the working set is the loaded rows
\* with a date in that range, in order, the others dropped; a bad date never
\* stops the run.
C9_WorkingSetDatesInRange ==
    /\ (DateStepDone /\ DATE_COL # <<>>) =>
         /\ \A i \in DOMAIN df : WorkingRowOK(df[i])
         /\ \A i \in DOMAIN df_filtered : WorkingRowOK(df_filtered[i])
         /\ LET loaded  == LoadedRows
                numeric == \A k \in DOMAIN loaded :
                              loaded[k][DATE_COL].t \in {"num", "nan"}
                good    == SelectSeq(loaded,
                                     LAMBDA r : DateInRange(r[DATE_COL], numeric))
            IN  /\ Len(df) = Len(good)
                /\ \A i \in DOMAIN df :
                     \A c \in (DOMAIN good[i]) \ {DATE_COL} : df[i][c] = good[i][c]
    /\ (DateStepDone /\ "error: date column" \in shown) =>
         \A h \in Range(uploaded_file[1].headers) :
            Strip(h) \notin Range(possible_date_cols)

\* One record kept, one dropped for its year, one for its blank date.
C9_Witness ==
    /\ pc = "done"
    /\ uploaded_file = <<MkFile(StandardLayout, <<RowPool[1], RowPool[7], RowPool[9]>>)>>
    /\ Len(df) = 1 /\ total_orders = 1 /\ total_qty = 10

----------------------------------------------------------------------------
(* C10 *)

DimensionOK(col, sel) ==
    sel # {} => \A i \in DOMAIN df_filtered :
                   ~IsNa(df_filtered[i][col]) /\ df_filtered[i][col] \in sel

HasMissing(rows, col) == \E i \in DOMAIN rows : IsNa(rows[i][col])

\* The default selection of a dimension: every offered option.
IsDefault(col, sel) == sel = Options(df, col)

\* C10 as stated: a non-empty selection admits only present, selected values;
\* under the default selection no record with a missing value of the
\* dimension is in the filtered set; and the default selection differs from
\* the empty one when such a record would otherwise pass.
C10_DefaultExcludesMissing ==
    FilterDone =>
      \A d \in { <<cCity, selected_city>>, <<cStore, selected_store>>,
                 <<cName, selected_name>> } :
         /\ DimensionOK(d[1], d[2])
         /\ IsDefault(d[1], d[2]) => ~HasMissing(df_filtered, d[1])
         /\ (IsDefault(d[1], d[2]) /\ HasMissing(FilterSkipping({d[1]}), d[1])) =>
               df_filtered # FilterSkipping({d[1]})

\* C10 amended: the exclusion under the default selection needs the
\* dimension to offer at least one option; with none the default selection
\* is the empty one and passes every record.
C10_NonEmptyDefaultExcludesMissing ==
    FilterDone =>
      \A d \in { <<cCity, selected_city>>, <<cStore, selected_store>>,
                 <<cName, selected_name>> } :
         /\ DimensionOK(d[1], d[2])
         /\ (IsDefault(d[1], d[2]) /\ Options(df, d[1]) # {}) =>
               ~HasMissing(df_filtered, d[1])
         /\ (IsDefault(d[1], d[2]) /\ Options(df, d[1]) # {}
               /\ HasMissing(FilterSkipping({d[1]}), d[1])) =>
               df_filtered # FilterSkipping({d[1]})
         /\ (IsDefault(d[1], d[2]) /\ Options(df, d[1]) = {}) =>
               df_filtered = FilterSkipping({d[1]})

\* A Passed record without City is dropped by the default City selection.
C10_Witness ==
    /\ FilterDone
    /\ selected_city = Options(df, cCity) /\ selected_city # {}
    /\ selected_store = {} /\ selected_name = {} /\ selected_year = {}
    /\ HasMissing(PassedOnly(df), cCity)
    /\ df_filtered # <<>> /\ ~HasMissing(df_filtered, cCity)

====
